---- MODULE Spec2Model ----
(***************************************************************************)
(* munamuna: the proxy engine of src/src/index.ts (lines 1-352) as a state *)
(* machine.  The heap of backing nodes, the three WeakMaps (proxyMap,       *)
(* metaMap, functionSet), every proxy's target.obj and the spies made by   *)
(* the injected spyFunction are the state; each proxy trap is one action.  *)
(***************************************************************************)
EXTENDS Integers, Sequences, FiniteSets, TLC

\* ------------------------------------------------------------------ bounds
\* Number of heap cells (objects, arrays, functions) a run may allocate.
MaxNodes == 4
\* Cap on the call counter a spy keeps.
MaxCalls == 2

\* ------------------------------------------------------------------ values
\* A value is an integer: 1..MaxNodes is a reference to a heap cell, 0 marks a
\* property that is not there, a negative number is a primitive.
Absent == 0
Undef == -1
Null == -2
P1 == -3
P2 == -4
\* a spy on which mockReturnValue was never called
NoMock == -9

Nodes == 1..MaxNodes
\* A handler allocates at most two cells; the slack keeps its result in the
\* domain, and a step is taken only if the result fits in Nodes.
Cells == 1..(MaxNodes + 2)
Prims == {Undef, Null, P1, P2}
Vals == Nodes \cup Prims \cup {Absent}

StrKeys == {"a", "b"}
NumKeys == {"0", "1"}
Keys == StrKeys \cup NumKeys

\* !isNaN(key)
IsNumeric(k) == k \in NumKeys
Idx(k) == IF k = "0" THEN 0 ELSE 1

IsRef(v) == v \in Cells
\* JavaScript truthiness of a value
Truthy(v) == IsRef(v) \/ v \in {P1, P2}

\* Composite literals a test can assign: {} , {a: P1} , [] , [P1]
TObj0 == 101
TObjA == 102
TArr0 == 103
TArr1 == 104
Templates == {TObj0, TObjA, TArr0, TArr1}
IsTemplate(v) == v \in Templates
TIsArray(t) == t \in {TArr0, TArr1}
TFields(t) ==
  [k \in Keys |-> IF (t = TObjA /\ k = "a") \/ (t = TArr1 /\ k = "0") THEN P1 ELSE Absent]
TLen(t) == IF t = TArr1 THEN 1 ELSE 0

spyMethods == {"mockReturnValue", "mockReturnValueOnce", "mockResolvedValue",
               "mockResolvedValueOnce", "mockRejectedValue", "mockRejectedValueOnce",
               "mockImplementation", "mockImplementationOnce"}

NoMeta == [parent |-> 0, key |-> ""]
NoFields == [k \in Keys |-> Absent]

VARIABLES
  kind,        \* [Cells -> {"free","obj","arr","fun","spy","mod"}]
  fields,      \* [Cells -> [Keys -> Vals]]  own properties of objects and arrays
  len,         \* [Cells -> Nat]             length of arrays
  retValue,    \* [Cells -> Vals]            retObj.value of the container made with a function
  mockRet,     \* [Cells -> Vals \cup {NoMock}] what mockReturnValue set on a spy
  calls,       \* [Cells -> Nat]             a spy's call count
  proxyMap,    \* [Cells -> proxy or 0]      a proxy is named by the cell it was created for
  metaMap,     \* [Cells -> [parent, key]]
  functionSet, \* [Cells -> the function whose retObj is registered for the cell, or 0]
  tobj,        \* [proxy -> cell]            target.obj of each proxy (0: no such proxy)
  last,        \* the last operation and what it returned
  expr         \* the path expression in progress from the root handle

vars == <<kind, fields, len, retValue, mockRet, calls, proxyMap, metaMap, functionSet,
          tobj, last, expr>>

\* ------------------------------------------------------------------ state records
\* The handlers are operators from a state record to a result [s, ret, err].
Cur == [kind |-> kind, fields |-> fields, len |-> len, retValue |-> retValue,
        mockRet |-> mockRet, calls |-> calls, proxyMap |-> proxyMap,
        metaMap |-> metaMap, functionSet |-> functionSet, tobj |-> tobj]

Root == 1
AllocS(s) == Cardinality({n \in Cells : s.kind[n] # "free"})
\* the cell the next allocation takes
NewS(s) == AllocS(s) + 1
Fits(s) == AllocS(s) <= MaxNodes
NewCell(s, kd) == [s EXCEPT !.kind[NewS(s)] = kd]

Proxies == {p \in Nodes : tobj[p] # 0}
IsArrayS(s, v) == IsRef(v) /\ s.kind[v] = "arr"
IsFunctionS(s, v) == IsRef(v) /\ s.kind[v] \in {"fun", "spy"}
\* typeof v === 'object'  (null included)
TypeofObject(s, v) == v = Null \/ (IsRef(v) /\ s.kind[v] \in {"obj", "arr"})

\* container[k]  (an absent property reads as undefined)
ReadProp(s, n, k) == IF s.fields[n][k] = Absent THEN Undef ELSE s.fields[n][k]
\* container[k] raises: the object of a mocked module ("mod") raises on the
\* read of a name it does not define
ReadRaises(s, n, k) == s.kind[n] = "mod" /\ s.fields[n][k] = Absent
\* container[k] = v
Write(s, n, k, v) ==
  [s EXCEPT !.fields[n][k] = v,
            !.len[n] = IF s.kind[n] = "arr" /\ IsNumeric(k) /\ Idx(k) + 1 > @
                       THEN Idx(k) + 1 ELSE @]
\* delete container[k]
Delete(s, n, k) == [s EXCEPT !.fields[n][k] = Absent]
\* Object.getOwnPropertyNames(n) without 'length'
OwnProps(s, n) == {k \in Keys : s.fields[n][k] # Absent}

Ok(s, ret) == [s |-> s, ret |-> ret, err |-> FALSE]
Throw(s) == [s |-> s, ret |-> Undef, err |-> TRUE]

\* ------------------------------------------------------------------ munamuna
\* createProxy + proxyMap.set: the proxy made for a cell is named by that cell
createProxy(s, obj) == [s EXCEPT !.tobj[obj] = obj, !.proxyMap[obj] = obj]

\* munamuna(obj): the cached proxy, or a new one
munamuna(s, obj) ==
  IF s.proxyMap[obj] # 0 THEN Ok(s, s.proxyMap[obj])
  ELSE Ok(createProxy(s, obj), obj)

\* ------------------------------------------------------------------ mockFunction
\* retObj[spy] of the container kept with function c
SpyOf(s, c) == IF s.kind[c] = "spy" THEN c ELSE Undef

\* what spyFunction(implementation) / a plain closure is, as a cell kind
FunKind(isReturnsSpy) == IF isReturnsSpy THEN "spy" ELSE "fun"

\* retObj = value === undefined ? { value: prevTarget } : { value }
RetObjValue(value, prevTarget) == IF value = Undef THEN prevTarget ELSE value

\* the key under which mockFunction registers the container
FunctionSetKey(obj, prevTarget) == prevTarget

mockFunction(s, p, obj, value, isReturnsSpy) ==
  LET meta == s.metaMap[obj] IN
  IF meta.parent = 0 \/ ReadRaises(s, meta.parent, meta.key) THEN Throw(s)
  ELSE
    LET prevTarget == ReadProp(s, meta.parent, meta.key)
        fun == NewS(s)
        fsKey == FunctionSetKey(obj, prevTarget)
    IN
    \* functionSet.set(prevTarget, retObj) raises for a key that is no object
    IF ~IsRef(fsKey) THEN Throw(s)
    ELSE
      LET s1 == [NewCell(s, FunKind(isReturnsSpy)) EXCEPT
                   !.retValue[fun] = RetObjValue(value, prevTarget),
                   !.functionSet[fsKey] = fun]
          s2 == Write(s1, meta.parent, meta.key, fun)
          s3 == [s2 EXCEPT !.metaMap[fun] = meta, !.proxyMap[fun] = p]
      IN Ok(s3, fun)

\* ------------------------------------------------------------------ getTraps
\* functionSet.has(obj)
HasContainer(s, obj) == s.functionSet[obj] # 0

\* getTraps[returns] calling mockFunction with isReturnsSpy = true
getReturnsAsSpy(s, p) ==
  LET obj == s.tobj[p] IN
  IF ~HasContainer(s, obj)
  THEN LET r == mockFunction(s, p, obj, Undef, TRUE) IN IF r.err THEN r ELSE Ok(r.s, p)
  ELSE Ok(s, p)

getReturns(s, p) ==
  LET obj == s.tobj[p] IN
  IF ~HasContainer(s, obj)
  THEN LET r == mockFunction(s, p, obj, Undef, FALSE) IN IF r.err THEN r ELSE Ok(r.s, p)
  ELSE Ok(s, p)

getReturnsSpy(s, p) ==
  LET obj == s.tobj[p] IN
  IF ~HasContainer(s, obj)
  THEN LET r == mockFunction(s, p, obj, Undef, TRUE) IN IF r.err THEN r ELSE Ok(r.s, p)
  ELSE Ok(s, p)

\* functionSet.get(obj)?.[spy] ?? mockFunction(proxy, obj, undefined, true)
getSpy(s, p) ==
  LET obj == s.tobj[p]
      c == s.functionSet[obj]
  IN IF c # 0 /\ SpyOf(s, c) # Undef THEN Ok(s, SpyOf(s, c))
     ELSE mockFunction(s, p, obj, Undef, TRUE)

getSet(s, p) == Ok(s, p)

\* the loop stopping at 'length' for every node, not only for an array: only
\* the indexes are deleted
ClearIndexes(s, obj) ==
  [s EXCEPT !.fields[obj] = [k \in Keys |-> IF ~IsNumeric(k) THEN @[k] ELSE Absent]]

\* the loop of reset and of setTraps[set]: delete every own property name in
\* turn.  An array lists its indexes, then 'length', whose deletion raises
\* in strict code, so only the indexes are gone when it does.
ClearProps(s, obj) ==
  [s EXCEPT !.fields[obj] =
     [k \in Keys |-> IF s.kind[obj] = "arr" /\ ~IsNumeric(k) THEN @[k] ELSE Absent]]
ClearRaises(s, obj) == s.kind[obj] = "arr"

\* reset that also deletes the node's recorded parent slot, as [detach] does
callResetSever(s, p) ==
  LET obj == s.tobj[p]
      meta == s.metaMap[obj]
      s1 == ClearProps(s, obj)
  IN IF ClearRaises(s, obj) THEN Throw(s1)
     ELSE IF meta.parent = 0 THEN Ok(s1, p)
     ELSE Ok(Delete(s1, meta.parent, meta.key), p)

\* h[reset]()
callReset(s, p) ==
  LET obj == s.tobj[p] IN
  IF ClearRaises(s, obj) THEN Throw(ClearProps(s, obj)) ELSE Ok(ClearProps(s, obj), p)

\* detach returning the proxy when there is no record, without the throw
callDetachSilent(s, p) ==
  LET meta == s.metaMap[s.tobj[p]] IN
  IF meta.parent = 0 THEN Ok(s, p) ELSE Ok(Delete(s, meta.parent, meta.key), p)

\* h[detach]()
callDetach(s, p) ==
  LET meta == s.metaMap[s.tobj[p]] IN
  IF meta.parent = 0 THEN Throw(s) ELSE Ok(Delete(s, meta.parent, meta.key), p)

\* h[reattach]()
callReattach(s, p) ==
  LET obj == s.tobj[p]
      meta == s.metaMap[obj]
  IN IF meta.parent = 0 THEN Throw(s) ELSE Ok(Write(s, meta.parent, meta.key, obj), p)

\* getTraps[key] for key in spyMethods: returns the spy's method, here the spy
getSpyMethod(s, p) ==
  LET obj == s.tobj[p]
      c == s.functionSet[obj]
  IN IF c # 0
     THEN (IF SpyOf(s, c) = Undef THEN Throw(s) ELSE Ok(s, SpyOf(s, c)))
     ELSE mockFunction(s, p, obj, Undef, TRUE)

\* spy.mockReturnValue(v) of the injected spy
mockReturnValue(s, sp, v) == [s EXCEPT !.mockRet[sp] = v]

\* ------------------------------------------------------------------ setTraps
setReturns(s, p, newVal) ==
  LET obj == s.tobj[p]
      c == s.functionSet[obj]
  IN IF c # 0 THEN Ok([s EXCEPT !.retValue[c] = newVal], Undef)
     ELSE LET r == mockFunction(s, p, obj, newVal, FALSE) IN
          IF r.err THEN r ELSE Ok(r.s, Undef)

setReturnsSpy(s, p, newVal) ==
  LET obj == s.tobj[p]
      c == s.functionSet[obj]
  IN IF c # 0
     THEN (IF SpyOf(s, c) = Undef THEN Throw(s)
           ELSE Ok(mockReturnValue(s, SpyOf(s, c), newVal), Undef))
     ELSE LET r == mockFunction(s, p, obj, Undef, TRUE) IN
          IF r.err THEN r ELSE Ok(mockReturnValue(r.s, r.ret, newVal), Undef)

\* Object.assign(obj, newVal) for a composite literal or null
Assign(s, obj, newVal) ==
  IF IsTemplate(newVal)
  THEN [s EXCEPT !.fields[obj] =
          [k \in Keys |-> IF TFields(newVal)[k] # Absent THEN TFields(newVal)[k] ELSE @[k]]]
  ELSE s

\* the literal newVal as a new heap cell
Literal(s, t) ==
  [NewCell(s, IF TIsArray(t) THEN "arr" ELSE "obj") EXCEPT
     !.fields[NewS(s)] = TFields(t), !.len[NewS(s)] = TLen(t)]

\* [set] without the throw for a node that has no record
setSetSilent(s, p, newVal) ==
  LET obj == s.tobj[p] IN
  IF IsTemplate(newVal) \/ newVal = Null
  THEN IF ClearRaises(s, obj) THEN Throw(ClearProps(s, obj))
       ELSE Ok(Assign(ClearProps(s, obj), obj, newVal), Undef)
  ELSE LET meta == s.metaMap[obj] IN
       IF meta.parent = 0 THEN Ok(s, Undef)
       ELSE Ok(Write(s, meta.parent, meta.key, newVal), Undef)

setSet(s, p, newVal) ==
  LET obj == s.tobj[p] IN
  IF IsTemplate(newVal) \/ newVal = Null   \* typeof newVal === 'object' && typeof obj === 'object'
  THEN IF ClearRaises(s, obj) THEN Throw(ClearProps(s, obj))
       ELSE Ok(Assign(ClearProps(s, obj), obj, newVal), Undef)
  ELSE LET meta == s.metaMap[obj] IN
       IF meta.parent = 0 THEN Throw(s)
       ELSE Ok(Write(s, meta.parent, meta.key, newVal), Undef)

\* ------------------------------------------------------------------ proxyHandler
\* the try block of get: existing = obj[key]; if (existing) return munamuna(existing).
\* For a truthy primitive proxyMap.set raises inside the try and the catch
\* swallows it, so only an object, array or function is found; a read that
\* raises is swallowed the same way.
GetFound(s, obj, k) ==
  ~ReadRaises(s, obj, k) /\ Truthy(ReadProp(s, obj, k)) /\ IsRef(ReadProp(s, obj, k))

\* get without "obj[key] = newProp": the new child is never installed
getUnattached(s, p, k) ==
  LET obj == s.tobj[p] IN
  IF GetFound(s, obj, k) THEN munamuna(s, ReadProp(s, obj, k))
  ELSE LET newProp == NewS(s)
           s1 == NewCell(s, "obj")
           s3 == [s1 EXCEPT !.metaMap[newProp] = [parent |-> obj, key |-> k]]
       IN munamuna(s3, newProp)

\* get without the try: a read that raises is propagated
getNoCatch(s, p, k) ==
  LET obj == s.tobj[p] IN
  IF ReadRaises(s, obj, k) THEN Throw(s)
  ELSE IF GetFound(s, obj, k) THEN munamuna(s, ReadProp(s, obj, k))
  ELSE
    LET newProp == NewS(s)
        s1 == NewCell(s, "obj")
    IN
    IF IsArrayS(s, obj)
    THEN LET meta == s.metaMap[obj] IN
         IF meta.parent = 0 THEN Throw(s)
         ELSE LET newObj == NewS(s1)
                  s2 == Write(NewCell(s1, "obj"), newObj, k, newProp)
                  s3 == [s2 EXCEPT !.tobj[p] = newObj]
                  s4 == Write(s3, meta.parent, meta.key, newObj)
                  s5 == [s4 EXCEPT !.metaMap[newObj] = meta,
                                   !.proxyMap[newObj] = p,
                                   !.metaMap[newProp] = [parent |-> newObj, key |-> k]]
              IN munamuna(s5, newProp)
    ELSE LET s2 == Write(s1, obj, k, newProp)
             s3 == [s2 EXCEPT !.metaMap[newProp] = [parent |-> obj, key |-> k]]
         IN munamuna(s3, newProp)

get(s, p, k) ==
  LET obj == s.tobj[p] IN
  IF GetFound(s, obj, k) THEN munamuna(s, ReadProp(s, obj, k))
  ELSE
    LET newProp == NewS(s)
        s1 == NewCell(s, "obj")
    IN
    IF IsArrayS(s, obj)
    THEN LET meta == s.metaMap[obj] IN
         IF meta.parent = 0 THEN Throw(s)
         ELSE LET newObj == NewS(s1)
                  s2 == Write(NewCell(s1, "obj"), newObj, k, newProp)
                  s3 == [s2 EXCEPT !.tobj[p] = newObj]
                  s4 == Write(s3, meta.parent, meta.key, newObj)
                  s5 == [s4 EXCEPT !.metaMap[newObj] = meta,
                                   !.proxyMap[newObj] = p,
                                   !.metaMap[newProp] = [parent |-> newObj, key |-> k]]
              IN munamuna(s5, newProp)
    ELSE LET s2 == Write(s1, obj, k, newProp)
             s3 == [s2 EXCEPT !.metaMap[newProp] = [parent |-> obj, key |-> k]]
         IN munamuna(s3, newProp)

\* set with a numeric key, without proxyMap.set(newArray, proxy)
setNumericUnregistered(s, p, k, newVal) ==
  LET obj == s.tobj[p]
      sv == IF IsTemplate(newVal) THEN Literal(s, newVal) ELSE s
      v == IF IsTemplate(newVal) THEN NewS(s) ELSE newVal
  IN
  IF IsArrayS(s, obj) THEN Ok(Write(sv, obj, k, v), Undef)
  ELSE LET meta == s.metaMap[obj] IN
       IF meta.parent = 0 THEN Throw(s)
       ELSE LET newArray == NewS(sv)
                s1 == Write(NewCell(sv, "arr"), meta.parent, meta.key, newArray)
                s2 == [s1 EXCEPT !.metaMap[newArray] = meta]
                s3 == Write(s2, newArray, k, v)
            IN Ok([s3 EXCEPT !.tobj[p] = newArray], Undef)

\* set with a numeric key that stores the value in the old object as well as
\* in the array that replaces it
setNumericBoth(s, p, k, newVal) ==
  LET obj == s.tobj[p]
      sv == IF IsTemplate(newVal) THEN Literal(s, newVal) ELSE s
      v == IF IsTemplate(newVal) THEN NewS(s) ELSE newVal
  IN
  IF IsArrayS(s, obj) THEN Ok(Write(sv, obj, k, v), Undef)
  ELSE LET meta == s.metaMap[obj] IN
       IF meta.parent = 0 THEN Throw(s)
       ELSE LET newArray == NewS(sv)
                s1 == Write(NewCell(sv, "arr"), meta.parent, meta.key, newArray)
                s2 == [s1 EXCEPT !.metaMap[newArray] = meta, !.proxyMap[newArray] = p]
                s3 == Write(Write(s2, obj, k, v), newArray, k, v)
            IN Ok([s3 EXCEPT !.tobj[p] = newArray], Undef)

\* set with a numeric key
setNumeric(s, p, k, newVal) ==
  LET obj == s.tobj[p]
      \* a composite literal is a new cell, made by the caller
      sv == IF IsTemplate(newVal) THEN Literal(s, newVal) ELSE s
      v == IF IsTemplate(newVal) THEN NewS(s) ELSE newVal
  IN
  IF IsArrayS(s, obj) THEN Ok(Write(sv, obj, k, v), Undef)
  ELSE LET meta == s.metaMap[obj] IN
       IF meta.parent = 0 THEN Throw(s)
       ELSE LET newArray == NewS(sv)
                s1 == Write(NewCell(sv, "arr"), meta.parent, meta.key, newArray)
                s2 == [s1 EXCEPT !.metaMap[newArray] = meta, !.proxyMap[newArray] = p]
                s3 == Write(s2, newArray, k, v)
            IN Ok([s3 EXCEPT !.tobj[p] = newArray], Undef)

\* objToAssignTo.length = 0; objToAssignTo.push(...newVal)
ArrayReplace(s, a, t) ==
  [s EXCEPT !.fields[a] = [k \in Keys |-> IF IsNumeric(k) THEN TFields(t)[k] ELSE @[k]],
            !.len[a] = TLen(t)]

\* for (const prop of Object.getOwnPropertyNames(objToAssignTo)) delete obj[prop]
DeleteNamesOf(s, obj, objToAssignTo) ==
  [s EXCEPT !.fields[obj] =
     [k \in Keys |-> IF k \in OwnProps(s, objToAssignTo) THEN Absent ELSE @[k]]]

\* set with a non-numeric key and typeof newVal === 'object' (a literal or null)
setComposite(s, p, k, newVal) ==
  LET obj == s.tobj[p]
      objToAssignTo == ReadProp(s, obj, k)
      sv == IF IsTemplate(newVal) THEN Literal(s, newVal) ELSE s
      v == IF IsTemplate(newVal) THEN NewS(s) ELSE newVal
      newIsArray == IsTemplate(newVal) /\ TIsArray(newVal)
      here == [parent |-> obj, key |-> k]
  IN
  \* const objToAssignTo = obj[key] is outside any try
  IF ReadRaises(s, obj, k) THEN Throw(s)
  ELSE IF TypeofObject(s, objToAssignTo)
  THEN
    IF newIsArray /\ IsArrayS(s, objToAssignTo)
    THEN Ok(ArrayReplace(s, objToAssignTo, newVal), Undef)
    ELSE IF ~newIsArray /\ ~IsArrayS(s, objToAssignTo)
    THEN \* "they are both objects"; getOwnPropertyNames(null) raises
         IF objToAssignTo = Null THEN Throw(s)
         ELSE Ok(Assign(DeleteNamesOf(s, obj, objToAssignTo), objToAssignTo, newVal), Undef)
    ELSE \* one is an array and one is an object
         IF objToAssignTo = Null \/ s.metaMap[objToAssignTo].parent = 0 THEN Throw(s)
         ELSE LET meta == s.metaMap[objToAssignTo]
                  s1 == Write(sv, meta.parent, meta.key, v)
              IN \* metaMap.set(null, ...) raises
                 IF v = Null THEN Throw(s1)
                 ELSE Ok([s1 EXCEPT !.metaMap[v] = here], Undef)
  ELSE LET s1 == Write(sv, obj, k, v) IN
       IF v = Null THEN Throw(s1)
       ELSE Ok([s1 EXCEPT !.metaMap[v] = here], Undef)

\* setPrimitive writing the node back into its recorded parent slot as well
setPrimitiveLive(s, p, k, newVal) ==
  LET obj == s.tobj[p]
      meta == s.metaMap[obj]
      s1 == Write(s, obj, k, newVal)
  IN IF meta.parent = 0 THEN Ok(s1, Undef)
     ELSE Ok(Write(s1, meta.parent, meta.key, obj), Undef)

\* set with a non-numeric key and a primitive other than null
setPrimitive(s, p, k, newVal) ==
  LET obj == s.tobj[p] IN
  IF IsArrayS(s, obj)
  THEN LET meta == s.metaMap[obj] IN
       IF meta.parent = 0 THEN Throw(s)
       ELSE LET newObj == NewS(s)
                s1 == Write(NewCell(s, "obj"), meta.parent, meta.key, newObj)
                s2 == [s1 EXCEPT !.metaMap[newObj] = meta, !.proxyMap[newObj] = p]
                s3 == Write(s2, newObj, k, newVal)
            IN Ok([s3 EXCEPT !.tobj[p] = newObj], Undef)
  ELSE Ok(Write(s, obj, k, newVal), Undef)

set(s, p, k, newVal) ==
  IF IsNumeric(k) THEN setNumeric(s, p, k, newVal)
  ELSE IF IsTemplate(newVal) \/ newVal = Null THEN setComposite(s, p, k, newVal)
  ELSE setPrimitive(s, p, k, newVal)

\* apply calling mockFunction with isReturnsSpy = false
applyPlain(s, p) ==
  LET obj == s.tobj[p] IN
  IF ~HasContainer(s, obj)
  THEN LET r == mockFunction(s, p, obj, Undef, FALSE) IN IF r.err THEN r ELSE Ok(r.s, p)
  ELSE Ok(s, p)

apply(s, p) ==
  LET obj == s.tobj[p] IN
  IF ~HasContainer(s, obj)
  THEN LET r == mockFunction(s, p, obj, Undef, TRUE) IN IF r.err THEN r ELSE Ok(r.s, p)
  ELSE Ok(s, p)

\* ------------------------------------------------------------------ the code under test
\* what a call of function f returns: the spy's mockReturnValue if one was
\* set, else implementation() = retObj.value
CallResult(s, f) ==
  IF s.kind[f] = "spy" /\ s.mockRet[f] # NoMock THEN s.mockRet[f] ELSE s.retValue[f]

\* the last operation: receiver, key, assigned value, what it returned, whether
\* it raised, and how many cells were allocated before it ran
Rec(op, h, k, v, r, e) ==
  [op |-> op, h |-> h, key |-> k, val |-> v, ret |-> r, err |-> e, pre |-> AllocS(Cur)]
ExprOff == [st |-> "off", keys |-> <<>>, h |-> 0, val |-> Undef]

Init ==
  /\ kind = [n \in Cells |-> IF n = Root THEN "obj" ELSE "free"]
  /\ fields = [n \in Cells |-> NoFields]
  /\ len = [n \in Cells |-> 0]
  /\ retValue = [n \in Cells |-> Undef]
  /\ mockRet = [n \in Cells |-> NoMock]
  /\ calls = [n \in Cells |-> 0]
  /\ proxyMap = [n \in Cells |-> IF n = Root THEN Root ELSE 0]
  /\ metaMap = [n \in Cells |-> NoMeta]
  /\ functionSet = [n \in Cells |-> 0]
  /\ tobj = [n \in Cells |-> IF n = Root THEN Root ELSE 0]
  /\ last = [op |-> "munamuna", h |-> 0, key |-> "", val |-> Undef, ret |-> Root,
             err |-> FALSE, pre |-> 0]
  /\ expr = [st |-> "nav", keys |-> <<>>, h |-> Root, val |-> Undef]

\* ------------------------------------------------------------------ actions
\* A step installs a handler's result; it is taken only if the cells fit.
Step(r, op, p, k, v, e) ==
  /\ Fits(r.s)
  /\ kind' = r.s.kind
  /\ fields' = r.s.fields
  /\ len' = r.s.len
  /\ retValue' = r.s.retValue
  /\ mockRet' = r.s.mockRet
  /\ calls' = r.s.calls
  /\ proxyMap' = r.s.proxyMap
  /\ metaMap' = r.s.metaMap
  /\ functionSet' = r.s.functionSet
  /\ tobj' = r.s.tobj
  /\ last' = Rec(op, p, k, v, r.ret, r.err)
  /\ expr' = e

\* mock.k1.k2...  : the handle each get returns is the receiver of the next
ExprGet(r, p, k) ==
  IF expr.st = "nav" /\ expr.h = p /\ ~r.err
  THEN [st |-> "nav", keys |-> Append(expr.keys, k), h |-> r.ret, val |-> Undef]
  ELSE ExprOff
\* mock.k1.k2...kn = v
ExprSet(r, p, k, v) ==
  IF expr.st = "nav" /\ expr.h = p
  THEN [st |-> "set", keys |-> Append(expr.keys, k), h |-> 0, val |-> v]
  ELSE ExprOff

\* munamuna(obj) called again on the root object
Munamuna == Step(munamuna(Cur, Root), "munamuna", 0, "", Undef, ExprOff)

Get(p, k) == LET r == get(Cur, p, k) IN Step(r, "get", p, k, Undef, ExprGet(r, p, k))

Set(p, k, v) == LET r == set(Cur, p, k, v) IN Step(r, "set", p, k, v, ExprSet(r, p, k, v))

GetReturns(p) == Step(getReturns(Cur, p), "getReturns", p, "", Undef, ExprOff)

GetReturnsSpy(p) == Step(getReturnsSpy(Cur, p), "getReturnsSpy", p, "", Undef, ExprOff)

GetSpy(p) == Step(getSpy(Cur, p), "getSpy", p, "", Undef, ExprOff)

GetSet(p) == Step(getSet(Cur, p), "getSet", p, "", Undef, ExprOff)

Reset(p) == Step(callReset(Cur, p), "reset", p, "", Undef, ExprOff)

Detach(p) == Step(callDetach(Cur, p), "detach", p, "", Undef, ExprOff)

Reattach(p) == Step(callReattach(Cur, p), "reattach", p, "", Undef, ExprOff)

\* every name of spyMethods has the same trap
GetSpyMethod(p, m) ==
  /\ m \in spyMethods
  /\ Step(getSpyMethod(Cur, p), "getSpyMethod", p, "", Undef, ExprOff)

SetReturns(p, v) == Step(setReturns(Cur, p, v), "setReturns", p, "", v, ExprOff)

SetReturnsSpy(p, v) == Step(setReturnsSpy(Cur, p, v), "setReturnsSpy", p, "", v, ExprOff)

SetSet(p, v) == Step(setSet(Cur, p, v), "setSet", p, "", v, ExprOff)

Apply(p) == Step(apply(Cur, p), "apply", p, "", Undef, ExprOff)

\* the code under test calls a function the mock installed
Call(f) ==
  /\ IsFunctionS(Cur, f)
  /\ kind[f] = "spy" => calls[f] < MaxCalls
  /\ Step(Ok([Cur EXCEPT !.calls[f] = IF kind[f] = "spy" THEN @ + 1 ELSE @], CallResult(Cur, f)),
          "call", f, "", Undef, ExprOff)

\* the test calls mockReturnValue on a spy it got from [spy] or a spy method
MockReturnValue(sp, v) ==
  /\ kind[sp] = "spy"
  /\ Step(Ok(mockReturnValue(Cur, sp, v), sp), "mockReturnValue", sp, "", v, ExprOff)

\* one step of the path expression mock.k1.k2...kn = v on the new root handle
PathGet(k) == expr.st = "nav" /\ Get(expr.h, k)
PathSet(k, v) == expr.st = "nav" /\ Set(expr.h, k, v)

\* ------------------------------------------------------------------ specifications
\* Every operation of the engine, on one property name.
AllKeys == {"a"}
AllVals == {P1, TObjA}
AllRets == {P1}

Next ==
  \/ Munamuna
  \/ \E p \in Proxies, k \in AllKeys : Get(p, k)
  \/ \E p \in Proxies, k \in AllKeys, v \in AllVals : Set(p, k, v)
  \/ \E p \in Proxies : GetReturns(p)
  \/ \E p \in Proxies : GetReturnsSpy(p)
  \/ \E p \in Proxies : GetSpy(p)
  \/ \E p \in Proxies : GetSet(p)
  \/ \E p \in Proxies : Reset(p)
  \/ \E p \in Proxies : Detach(p)
  \/ \E p \in Proxies : Reattach(p)
  \/ \E p \in Proxies, m \in spyMethods : GetSpyMethod(p, m)
  \/ \E p \in Proxies, v \in AllRets : SetReturns(p, v)
  \/ \E p \in Proxies, v \in AllRets : SetReturnsSpy(p, v)
  \/ \E p \in Proxies, v \in AllVals : SetSet(p, v)
  \/ \E p \in Proxies : Apply(p)
  \/ \E f \in Nodes : Call(f)
  \/ \E sp \in Nodes, v \in AllRets : MockReturnValue(sp, v)

Spec == Init /\ [][Next]_vars

\* One path expression mock.k1.k2...kn = v on a new root handle over {}.
PathVals == Prims \cup {TObjA, TArr1}

NextPath ==
  \/ \E k \in Keys : PathGet(k)
  \/ \E k \in Keys, v \in PathVals : PathSet(k, v)

SpecPath == Init /\ [][NextPath]_vars

\* Arrays: navigation and assignment on a property name and an index.
ArrKeys == {"a", "0"}
ArrVals == {P1, TObjA, TArr1}

NextArr ==
  \/ \E p \in Proxies, k \in ArrKeys : Get(p, k)
  \/ \E p \in Proxies, k \in ArrKeys, v \in ArrVals : Set(p, k, v)

SpecArr == Init /\ [][NextArr]_vars

\* Function mocking: the function operators, calls of the installed functions,
\* and the navigation and assignment that make a handle stale.
FunKeys == {"a"}
FunVals == {P1}
FunRets == {Undef, P1}

NextFun ==
  \/ \E p \in Proxies, k \in FunKeys : Get(p, k)
  \/ \E p \in Proxies, k \in FunKeys, v \in FunVals : Set(p, k, v)
  \/ \E p \in Proxies : GetReturns(p)
  \/ \E p \in Proxies : GetReturnsSpy(p)
  \/ \E p \in Proxies : GetSpy(p)
  \/ \E p \in Proxies, m \in spyMethods : GetSpyMethod(p, m)
  \/ \E p \in Proxies, v \in FunRets : SetReturns(p, v)
  \/ \E p \in Proxies, v \in FunRets : SetReturnsSpy(p, v)
  \/ \E p \in Proxies : Apply(p)
  \/ \E f \in Nodes : Call(f)
  \/ \E sp \in Nodes, v \in FunRets : MockReturnValue(sp, v)

SpecFun == Init /\ [][NextFun]_vars

\* Overwriting: navigation, assignment, [set] and [reattach] on one property
\* name.
OwKeys == {"a"}
OwVals == {P1, TObjA, TArr1}

NextOw ==
  \/ \E p \in Proxies, k \in OwKeys : Get(p, k)
  \/ \E p \in Proxies, k \in OwKeys, v \in OwVals : Set(p, k, v)
  \/ \E p \in Proxies, v \in OwVals : SetSet(p, v)
  \/ \E p \in Proxies : Reattach(p)

SpecOw == Init /\ [][NextOw]_vars

\* munamuna(obj) on an object the caller filled in: obj = {a: [P1]}.  The
\* array was not made through a handle: it has no proxy and no metaMap record.
Given == 2

InitGiven ==
  /\ kind = [n \in Cells |-> IF n = Root THEN "obj" ELSE IF n = Given THEN "arr" ELSE "free"]
  /\ fields = [n \in Cells |-> IF n = Root THEN [NoFields EXCEPT !["a"] = Given]
                               ELSE IF n = Given THEN [NoFields EXCEPT !["0"] = P1]
                               ELSE NoFields]
  /\ len = [n \in Cells |-> IF n = Given THEN 1 ELSE 0]
  /\ retValue = [n \in Cells |-> Undef]
  /\ mockRet = [n \in Cells |-> NoMock]
  /\ calls = [n \in Cells |-> 0]
  /\ proxyMap = [n \in Cells |-> IF n = Root THEN Root ELSE 0]
  /\ metaMap = [n \in Cells |-> NoMeta]
  /\ functionSet = [n \in Cells |-> 0]
  /\ tobj = [n \in Cells |-> IF n = Root THEN Root ELSE 0]
  /\ last = [op |-> "munamuna", h |-> 0, key |-> "", val |-> Undef, ret |-> Root,
             err |-> FALSE, pre |-> 0]
  /\ expr = ExprOff

SpecGiven == InitGiven /\ [][NextArr]_vars

\* Resetting: navigation and assignment on two property names, so that a node
\* has siblings, with [returns] and [reset].
RsKeys == {"a", "b"}
RsVals == {P1}

NextRs ==
  \/ \E p \in Proxies, k \in RsKeys : Get(p, k)
  \/ \E p \in Proxies, k \in RsKeys, v \in RsVals : Set(p, k, v)
  \/ \E p \in Proxies : GetReturns(p)
  \/ \E p \in Proxies : Reset(p)

SpecRs == Init /\ [][NextRs]_vars

\* munamuna(lib) on the object of a mocked module, whose read of a name it
\* does not define raises: navigation, assignment, [returns] = v and [reset].
InitMod ==
  /\ kind = [n \in Cells |-> IF n = Root THEN "mod" ELSE "free"]
  /\ fields = [n \in Cells |-> NoFields]
  /\ len = [n \in Cells |-> 0]
  /\ retValue = [n \in Cells |-> Undef]
  /\ mockRet = [n \in Cells |-> NoMock]
  /\ calls = [n \in Cells |-> 0]
  /\ proxyMap = [n \in Cells |-> IF n = Root THEN Root ELSE 0]
  /\ metaMap = [n \in Cells |-> NoMeta]
  /\ functionSet = [n \in Cells |-> 0]
  /\ tobj = [n \in Cells |-> IF n = Root THEN Root ELSE 0]
  /\ last = [op |-> "munamuna", h |-> 0, key |-> "", val |-> Undef, ret |-> Root,
             err |-> FALSE, pre |-> 0]
  /\ expr = ExprOff

ModKeys == {"a"}
ModVals == {P1}

NextMod ==
  \/ \E p \in Proxies, k \in ModKeys : Get(p, k)
  \/ \E p \in Proxies, k \in ModKeys, v \in ModVals : Set(p, k, v)
  \/ \E p \in Proxies, v \in ModVals : SetReturns(p, v)
  \/ \E p \in Proxies : Reset(p)

SpecMod == InitMod /\ [][NextMod]_vars

\* Handles: navigation and assignment on a property name and an index, which
\* change a node between object and array, with the installation of functions.
UqKeys == {"a", "0"}
UqVals == {P1}

NextUq ==
  \/ \E p \in Proxies, k \in UqKeys : Get(p, k)
  \/ \E p \in Proxies, k \in UqKeys, v \in UqVals : Set(p, k, v)
  \/ \E p \in Proxies : GetReturns(p)
  \/ \E p \in Proxies : Apply(p)

SpecUq == Init /\ [][NextUq]_vars

\* Ownership: navigation, assignment of primitives and new composites,
\* [returns], [detach] and [reattach] on a property name and an index.
TreeKeys == {"a", "0"}
TreeVals == {P1, TObjA, TArr1}

NextTree ==
  \/ \E p \in Proxies, k \in TreeKeys : Get(p, k)
  \/ \E p \in Proxies, k \in TreeKeys, v \in TreeVals : Set(p, k, v)
  \/ \E p \in Proxies : GetReturns(p)
  \/ \E p \in Proxies : Detach(p)
  \/ \E p \in Proxies : Reattach(p)

SpecTree == Init /\ [][NextTree]_vars

\* ------------------------------------------------------------------ path creation
NonNumeric(keys) == \A i \in 1..Len(keys) : ~IsNumeric(keys[i])

\* what the first i keys lead to from the root object
RECURSIVE NodeAt(_, _)
NodeAt(keys, i) ==
  IF i = 0 THEN Root
  ELSE LET up == NodeAt(keys, i - 1) IN IF IsRef(up) THEN fields[up][keys[i]] ELSE Absent

\* n is a plain object whose only entry is k: v
OnlyEntry(n, k, v) == IsRef(n) /\ kind[n] = "obj" /\ fields[n] = [NoFields EXCEPT ![k] = v]
EmptyObject(n) == IsRef(n) /\ kind[n] = "obj" /\ fields[n] = NoFields

\* the root is deep-equal to {k1: {... {kn: {}}}}
NestedEmpty(keys) ==
  /\ \A i \in 1..Len(keys) : OnlyEntry(NodeAt(keys, i - 1), keys[i], NodeAt(keys, i))
  /\ EmptyObject(NodeAt(keys, Len(keys)))

\* the root is deep-equal to {k1: {... {kn: v}}}
NestedObject(keys, v) ==
  /\ \A i \in 1..(Len(keys) - 1) : OnlyEntry(NodeAt(keys, i - 1), keys[i], NodeAt(keys, i))
  /\ OnlyEntry(NodeAt(keys, Len(keys) - 1), keys[Len(keys)], v)

\* C1: on a new root handle over {}, after the gets mock.k1...ki on property
\* names the root is the nested object {k1: {... {ki: {}}}} and each get has
\* made exactly one cell; after the final set of a primitive v the root is
\* deep-equal to {k1: {... {kn: v}}} and the set has made no cell.
C1_PathCreation ==
  NonNumeric(expr.keys) =>
    /\ expr.st = "nav" => NestedEmpty(expr.keys) /\ AllocS(Cur) = 1 + Len(expr.keys)
    /\ (expr.st = "set" /\ expr.val \in Prims) =>
         NestedObject(expr.keys, expr.val) /\ AllocS(Cur) = Len(expr.keys)

\* mock.a.b.a = P1 has run
C1_Witness ==
  /\ expr.st = "set" /\ expr.keys = <<"a", "b", "a">> /\ expr.val = P1
  /\ last.op = "set" /\ ~last.err
  /\ NestedObject(expr.keys, P1)

\* ------------------------------------------------------------------ navigation
\* cells made between s1 and s2 that the node of handle p holds as an entry
NewChildren(s1, s2, p) ==
  {c \in Cells : /\ s1.kind[c] = "free" /\ s2.kind[c] # "free"
                 /\ \E k \in Keys : s2.fields[s2.tobj[p]][k] = c}

\* C2: for every handle p and ordinary key k, h.k read twice in a row returns
\* the same handle both times; the first read makes at most one child of the
\* handle's node, the second read changes nothing at all.
C2_IdempotentNavigation ==
  \A p \in Proxies, k \in Keys :
    LET r1 == get(Cur, p, k)
        r2 == get(r1.s, p, k)
    IN /\ ~r1.err /\ ~r2.err
       /\ r2.ret = r1.ret
       /\ Cardinality(NewChildren(Cur, r1.s, p)) <= 1
       /\ r2.s = r1.s

\* ------------------------------------------------------------------ arrays
\* C10: h[K] = v with a numeric K on a non-root handle whose node is no array
\* makes a new array, installs it in the parent slot of the node, stores v at
\* K alone (lower indexes are holes) and rebinds the handle to the array; a
\* later index assignment through the handle, or a navigation from the parent
\* node to the slot, reaches that same array.
C10_ArrayCreation ==
  \A p \in Proxies, k \in NumKeys, v \in {P1, P2} :
    (p # Root /\ ~IsArrayS(Cur, tobj[p])) =>
      LET meta == metaMap[tobj[p]]
          r == set(Cur, p, k, v)
          arr == r.s.tobj[p]
      IN /\ ~r.err
         /\ kind[arr] = "free" /\ r.s.kind[arr] = "arr"
         /\ r.s.fields[meta.parent][meta.key] = arr
         /\ r.s.fields[arr] = [NoFields EXCEPT ![k] = v]
         /\ r.s.len[arr] = Idx(k) + 1
         /\ \A k2 \in NumKeys, v2 \in {P1, P2} :
              LET r2 == set(r.s, p, k2, v2) IN
              /\ ~r2.err
              /\ r2.s.tobj[p] = arr
              /\ r2.s.fields[meta.parent][meta.key] = arr
              /\ r2.s.fields[arr] = [r.s.fields[arr] EXCEPT ![k2] = v2]
              /\ AllocS(r2.s) = AllocS(r.s)
         /\ \A q \in Proxies :
              r.s.tobj[q] = meta.parent => get(r.s, q, meta.key) = Ok(r.s, p)

\* ------------------------------------------------------------------ function mocking
\* what the parent slot recorded for the node of handle p holds
Slot(s, p) == LET meta == s.metaMap[s.tobj[p]] IN ReadProp(s, meta.parent, meta.key)

\* no function is installed for handle p: its node has no container and the
\* slot holds no function
NoFunction(s, p) == ~HasContainer(s, s.tobj[p]) /\ ~IsFunctionS(s, Slot(s, p))

\* C3: on a non-root handle h with no function installed, h[returns] = v
\* installs in the parent slot a function whose call returns v; reading
\* h[returns] and writing h[returns].f = v instead makes the installed function
\* return the node bound to h, holding f = v and every entry it held before.
C3_ReturnMocking ==
  \A p \in Proxies :
    (p # Root /\ NoFunction(Cur, p)) =>
      /\ \A v \in FunRets :
           LET r == setReturns(Cur, p, v) IN
           /\ ~r.err
           /\ IsFunctionS(r.s, Slot(r.s, p))
           /\ CallResult(r.s, Slot(r.s, p)) = v
      /\ LET r == getReturns(Cur, p) IN
         /\ ~r.err
         /\ r.ret = p
         /\ \A f \in StrKeys, v \in {P1, P2} :
              LET w == set(r.s, r.ret, f, v)
                  node == w.s.tobj[p]
              IN /\ ~w.err
                 /\ IsFunctionS(w.s, Slot(w.s, p))
                 /\ CallResult(w.s, Slot(w.s, p)) = node
                 /\ w.s.fields[node] = [fields[tobj[p]] EXCEPT ![f] = v]

\* the handles whose node is recorded at the slot where spy sp is installed
HandlesOf(sp) ==
  {p \in Proxies : /\ p # Root /\ Slot(Cur, p) = sp
                   /\ metaMap[tobj[p]] = metaMap[sp]}

\* C4: once a spy is installed at a path, a [returnsSpy] get or set, an
\* invocation, a [spy] get or a spy-method read through a handle for that path
\* refers to that spy and installs nothing, and the spy read through h[spy]
\* has counted the calls of the function installed at the path.
C4_SpyReuse ==
  \A sp \in Nodes : kind[sp] = "spy" =>
    \A p \in HandlesOf(sp) :
      /\ getSpy(Cur, p) = Ok(Cur, sp)
      /\ getSpyMethod(Cur, p) = Ok(Cur, sp)
      /\ getReturnsSpy(Cur, p) = Ok(Cur, p)
      /\ apply(Cur, p) = Ok(Cur, p)
      /\ \A v \in FunRets : setReturnsSpy(Cur, p, v) = Ok(mockReturnValue(Cur, sp, v), Undef)
      /\ calls[getSpy(Cur, p).ret] = calls[Slot(Cur, p)]

\* one function was installed between s and r.s, in the parent slot of p
InstalledOne(s, r, p) ==
  /\ ~r.err
  /\ AllocS(r.s) = AllocS(s) + 1
  /\ Slot(r.s, p) = NewS(s)
  /\ IsFunctionS(r.s, NewS(s))

\* C5: a [returns] or [returnsSpy] get on a non-root handle whose node has a
\* container returns the handle and changes nothing; on a node without a
\* container it installs exactly one function in the node's parent slot and
\* returns the handle.
C5_ReturnsGetIdempotent ==
  \A p \in Proxies : p # Root =>
    IF HasContainer(Cur, tobj[p])
    THEN getReturns(Cur, p) = Ok(Cur, p) /\ getReturnsSpy(Cur, p) = Ok(Cur, p)
    ELSE /\ InstalledOne(Cur, getReturns(Cur, p), p) /\ getReturns(Cur, p).ret = p
         /\ InstalledOne(Cur, getReturnsSpy(Cur, p), p) /\ getReturnsSpy(Cur, p).ret = p

\* C6: from any state, for every handle h, h() and h[returnsSpy] raise alike,
\* return the same handle, h itself, and leave the same heap, proxyMap,
\* metaMap and functionSet.
C6_ApplyIsReturnsSpy ==
  \A p \in Proxies :
    /\ apply(Cur, p) = getReturnsSpy(Cur, p)
    /\ ~apply(Cur, p).err => apply(Cur, p).ret = p

\* h() has installed a spy and returned h
C6_Witness ==
  /\ last.op = "apply" /\ ~last.err /\ last.ret = last.h
  /\ AllocS(Cur) = last.pre + 1
  /\ kind[AllocS(Cur)] = "spy" /\ Slot(Cur, last.h) = AllocS(Cur)

\* C7: a [spy] get on a non-root handle returns a spy made by the spy
\* constructor, and that spy is what the handle's parent slot holds.
C7_SpyGet ==
  \A p \in Proxies : p # Root =>
    LET r == getSpy(Cur, p) IN
    /\ ~r.err
    /\ r.s.kind[r.ret] = "spy"
    /\ Slot(r.s, p) = r.ret

\* C8: reading a spy method on a non-root handle with no function installed
\* installs exactly one spy, as [returnsSpy] does, and returns its method;
\* when the node has a container the read raises nothing and installs nothing.
C8_SpyPassthrough ==
  \A p \in Proxies : p # Root =>
    LET r == getSpyMethod(Cur, p) IN
    /\ NoFunction(Cur, p) =>
         /\ InstalledOne(Cur, r, p)
         /\ r.s = getReturnsSpy(Cur, p).s
         /\ r.s.kind[r.ret] = "spy" /\ r.ret = Slot(r.s, p)
    /\ HasContainer(Cur, tobj[p]) => ~r.err /\ r.s = Cur

\* ------------------------------------------------------------------ spies on demand
SpyMakers == {"getReturnsSpy", "setReturnsSpy", "getSpy", "apply", "getSpyMethod"}

\* C9: the cells the last operation allocated hold a spy only if the operation
\* was a [returnsSpy] get or set, a [spy] get, an invocation or a spy-method
\* read.
C9_SpiesOnDemand ==
  \A n \in Cells : (kind[n] = "spy" /\ n > last.pre) => last.op \in SpyMakers

\* a [spy] get has made a spy and returned it
C9_Witness ==
  /\ last.op = "getSpy" /\ ~last.err
  /\ last.ret > last.pre /\ kind[last.ret] = "spy"

\* ------------------------------------------------------------------ numeric navigation
\* the positions of a path expression whose key was read by a get
Navigated(e) == IF e.st = "nav" THEN 1..Len(e.keys) ELSE 1..(Len(e.keys) - 1)

\* C11: in a path expression from a new root handle that starts with a property
\* name, every index read below it makes the node it is read on an array that
\* holds the child at that index (mock.a[0].a.b = x leaves root.a an array
\* whose element 0 is {a: {b: x}}, mock.a[0][0] nests arrays), and a final
\* set of a primitive is seen at the end of the path.
C11_NumericNavigation ==
  (expr.st \in {"nav", "set"} /\ Len(expr.keys) >= 2 /\ ~IsNumeric(expr.keys[1])) =>
    /\ \A i \in Navigated(expr) \ {1} :
         IsNumeric(expr.keys[i]) =>
           /\ IsArrayS(Cur, NodeAt(expr.keys, i - 1))
           /\ len[NodeAt(expr.keys, i - 1)] = Idx(expr.keys[i]) + 1
           /\ IsRef(NodeAt(expr.keys, i))
    /\ (expr.st = "set" /\ expr.val \in Prims /\ ~last.err) =>
         NodeAt(expr.keys, Len(expr.keys)) = expr.val

\* C12: a get of an index that holds no element, on a handle whose node is an
\* array, stores a new empty object at that index and returns its handle; the
\* handle read on stays bound to the same array, the array keeps every
\* element it had and no other node changes.
C12_ArrayIndexNavigation ==
  \A p \in Proxies, k \in NumKeys :
    (IsArrayS(Cur, tobj[p]) /\ fields[tobj[p]][k] = Absent) =>
      LET arr == tobj[p]
          r == get(Cur, p, k)
          child == NewS(Cur)
      IN /\ ~r.err
         /\ r.s.tobj[p] = arr /\ r.s.kind[arr] = "arr"
         /\ r.s.kind[child] = "obj" /\ r.s.fields[child] = NoFields
         /\ r.s.tobj[r.ret] = child
         /\ r.s.fields[arr] = [fields[arr] EXCEPT ![k] = child]
         /\ \A n \in Nodes \ {arr, child} : r.s.fields[n] = fields[n]

\* ------------------------------------------------------------------ type change
\* after r, handle p is bound to a new plain object that took the place of
\* array arr in every slot that held arr, and arr itself is as it was
ReplacedByObject(r, p, arr) ==
  LET newObj == r.s.tobj[p] IN
  /\ ~r.err
  /\ kind[newObj] = "free" /\ r.s.kind[newObj] = "obj"
  /\ \A n \in Nodes, kk \in Keys : fields[n][kk] = arr => r.s.fields[n][kk] = newObj
  /\ r.s.fields[arr] = fields[arr]
  /\ \A q \in Proxies, kk \in Keys :
       (fields[tobj[q]][kk] = arr /\ r.s.tobj[q] = tobj[q]) => get(r.s, q, kk) = Ok(r.s, p)

\* C13: a get or an assignment of a property name K that array node N does not
\* hold, through a handle bound to N, puts a new plain object in the parent
\* slot N occupied, leaves N itself alone, rebinds the handle to the object
\* and puts the child for K (the new node, or the assigned value) in it as
\* its only entry; a navigation from the parent then returns the same handle.
C13_ArrayToObject ==
  \A p \in Proxies, k \in StrKeys :
    (IsArrayS(Cur, tobj[p]) /\ fields[tobj[p]][k] = Absent) =>
      LET arr == tobj[p]
          g == get(Cur, p, k)
      IN /\ ReplacedByObject(g, p, arr)
         /\ IsRef(g.s.fields[g.s.tobj[p]][k])
         /\ g.s.fields[g.s.tobj[p]] = [NoFields EXCEPT ![k] = g.s.tobj[g.ret]]
         /\ get(g.s, p, k) = Ok(g.s, g.ret)
         /\ \A v \in {P1, TObjA} :
              LET w == set(Cur, p, k, v)
                  e == w.s.fields[w.s.tobj[p]][k]
              IN /\ ReplacedByObject(w, p, arr)
                 /\ \A kk \in Keys \ {k} : w.s.fields[w.s.tobj[p]][kk] = Absent
                 /\ IF v = P1 THEN e = P1
                    ELSE IsRef(e) /\ w.s.kind[e] = "obj" /\ w.s.fields[e] = TFields(v)

\* ------------------------------------------------------------------ assignment of composites
\* literal t and node n are composites of the same shape
SameShape(s, n, t) ==
  IsRef(n) /\ ((s.kind[n] = "arr" /\ TIsArray(t)) \/ (s.kind[n] = "obj" /\ ~TIsArray(t)))

\* C14: h.K = V, with K a property name and V and N[K] composites of the same
\* shape, leaves N[K] the very container it was, still bound to the handles
\* obtained for it, and its entries (for an array: its elements and length)
\* are exactly those of V.
C14_MergeSameShape ==
  \A p \in Proxies, k \in StrKeys, v \in {TObj0, TObjA, TArr0, TArr1} :
    LET N == tobj[p]
        old == fields[N][k]
        r == set(Cur, p, k, v)
    IN SameShape(Cur, old, v) =>
         /\ ~r.err
         /\ r.s.tobj[p] = N
         /\ r.s.fields[N][k] = old
         /\ r.s.kind[old] = kind[old]
         /\ \A q \in Proxies : tobj[q] = old => r.s.tobj[q] = old
         /\ IF TIsArray(v)
            THEN /\ r.s.len[old] = TLen(v)
                 /\ \A i \in NumKeys : r.s.fields[old][i] = TFields(v)[i]
            ELSE r.s.fields[old] = TFields(v)

\* literal t and node n are composites of opposite shapes
OppositeShape(s, n, t) ==
  IsRef(n) /\ ((s.kind[n] = "arr" /\ ~TIsArray(t)) \/ (s.kind[n] = "obj" /\ TIsArray(t)))

\* C15: h.K = V, with K a property name, V a composite and N[K] absent or a
\* composite of the opposite shape, raises nothing and leaves N[K] holding V
\* itself: a new container of V's shape with V's entries.
C15_Replacement ==
  \A p \in Proxies, k \in StrKeys, v \in {TObjA, TArr1} :
    LET N == tobj[p]
        old == fields[N][k]
        r == set(Cur, p, k, v)
        V == NewS(Cur)
    IN (old = Absent \/ OppositeShape(Cur, old, v)) =>
         /\ ~r.err
         /\ r.s.fields[N][k] = V
         /\ r.s.kind[V] = (IF TIsArray(v) THEN "arr" ELSE "obj")
         /\ r.s.fields[V] = TFields(v) /\ r.s.len[V] = TLen(v)

\* ------------------------------------------------------------------ stale handles
\* the cells reachable from the cells of S through properties and elements
RECURSIVE ReachFrom(_, _)
ReachFrom(s, S) ==
  LET T == S \cup {c \in Cells : \E n \in S, k \in Keys : s.fields[n][k] = c}
  IN IF T = S THEN S ELSE ReachFrom(s, T)

\* the data reachable from the root object
TreeOf(s) ==
  [n \in ReachFrom(s, {Root}) |-> [kind |-> s.kind[n], fields |-> s.fields[n], len |-> s.len[n]]]

\* the value at the path of handle p was replaced: its recorded parent slot
\* holds a primitive, or a composite of the other shape than p's node
Replaced(p) ==
  /\ p # Root /\ metaMap[tobj[p]].parent # 0
  /\ LET now == fields[metaMap[tobj[p]].parent][metaMap[tobj[p]].key] IN
     \/ now \in Prims
     \/ /\ IsRef(now) /\ kind[now] \in {"obj", "arr"} /\ kind[tobj[p]] \in {"obj", "arr"}
        /\ kind[now] # kind[tobj[p]]

C17_IndexRetarget ==
  \A p \in Proxies, k \in NumKeys, v \in {P1, P2} :
    LET meta == metaMap[tobj[p]]
        arr == fields[meta.parent][meta.key]
        r == set(Cur, p, k, v)
    IN (p # Root /\ meta.parent # 0 /\ kind[tobj[p]] = "obj" /\ IsArrayS(Cur, arr)) =>
         /\ ~r.err
         /\ r.s.tobj[p] = arr
         /\ r.s.fields[meta.parent][meta.key] = arr
         /\ r.s.fields[arr] = [fields[arr] EXCEPT ![k] = v]
         /\ AllocS(r.s) = AllocS(Cur)

\* ------------------------------------------------------------------ [set]
\* node n holds exactly the entries of literal t
HoldsLiteral(s, n, t) ==
  /\ IsRef(n) /\ s.kind[n] = (IF TIsArray(t) THEN "arr" ELSE "obj")
  /\ s.fields[n] = TFields(t)
  /\ TIsArray(t) => s.len[n] = TLen(t)

\* C18: h[set] = V on a handle whose node N has an attachment record: when V
\* and N are composites of the same shape, N stays bound and installed and
\* holds exactly V's entries; when V is a composite of the other shape the
\* parent slot holds a value of V's shape with V's entries; when V is a
\* primitive the parent slot holds V.
C18_SetOperator ==
  \A p \in Proxies, v \in {P1, TObjA, TArr1} :
    LET N == tobj[p]
        meta == metaMap[N]
        r == setSet(Cur, p, v)
        now == r.s.fields[meta.parent][meta.key]
    IN (p # Root /\ meta.parent # 0) =>
         /\ ~r.err
         /\ IF ~IsTemplate(v) THEN now = v
            ELSE IF SameShape(Cur, N, v)
            THEN /\ r.s.tobj[p] = N /\ HoldsLiteral(r.s, N, v)
                 /\ now = fields[meta.parent][meta.key]
            ELSE HoldsLiteral(r.s, now, v)

\* C19: through one handle h whose node has an attachment record, h[set] = p
\* for a primitive p puts p in the parent slot, and a further h[set] = V puts
\* V there: the primitive V, or a composite with V's shape and entries.
C19_SetTwice ==
  \A p \in Proxies, prim \in {P1, P2}, v \in {P1, P2, TObjA, TArr1} :
    LET meta == metaMap[tobj[p]]
        r1 == setSet(Cur, p, prim)
        r2 == setSet(r1.s, p, v)
        now == r2.s.fields[meta.parent][meta.key]
    IN (p # Root /\ meta.parent # 0) =>
         /\ ~r1.err /\ r1.s.fields[meta.parent][meta.key] = prim
         /\ ~r2.err
         /\ IF IsTemplate(v) THEN HoldsLiteral(r2.s, now, v) ELSE now = v

\* ------------------------------------------------------------------ [detach]
\* C20: h[detach]() on a non-root handle raises nothing, returns h, removes
\* the entry of the parent that the node's attachment record names and
\* changes nothing else: the node's own entries, every metaMap record and
\* every other entry of the parent are as before.
C20_Detach ==
  \A p \in Proxies : p # Root =>
    LET N == tobj[p]
        meta == metaMap[N]
        r == callDetach(Cur, p)
    IN /\ ~r.err /\ r.ret = p
       /\ meta.parent # 0
       /\ r.s.fields[meta.parent][meta.key] = Absent
       /\ r.s.fields[N] = fields[N]
       /\ r.s.metaMap = metaMap
       /\ \A n \in Nodes, k \in Keys :
            (n # meta.parent \/ k # meta.key) => r.s.fields[n][k] = fields[n][k]

\* ------------------------------------------------------------------ [detach] then [reattach]
\* the node of handle p is installed at its recorded slot: the slot holds the
\* node, or the function that was installed for the node
Installed(s, p) ==
  LET N == s.tobj[p]
      meta == s.metaMap[N]
  IN /\ meta.parent # 0
     /\ \/ Slot(s, p) = N
        \/ IsFunctionS(s, Slot(s, p)) /\ s.functionSet[N] = Slot(s, p)

\* the keys a write through a handle uses without changing the node's shape
ShapeKeys(s, n) == IF s.kind[n] = "arr" THEN NumKeys ELSE StrKeys

\* C21: for every non-root handle h whose node is installed at its recorded
\* slot (the slot holds the node, or the function installed for it),
\* h[detach]() then h[reattach]() raise nothing and leave the parent slot
\* holding the value it held before the detach; with a write h.K = V made
\* while detached the slot holds that same value and the node has K = V.
C21_DetachReattach ==
  \A p \in Proxies : (p # Root /\ Installed(Cur, p)) =>
    LET N == tobj[p]
        meta == metaMap[N]
        before == Slot(Cur, p)
        r1 == callDetach(Cur, p)
        r2 == callReattach(r1.s, p)
    IN /\ ~r1.err /\ ~r2.err
       /\ r2.s.fields[meta.parent][meta.key] = before
       /\ \A k \in ShapeKeys(Cur, N) :
            LET w == set(r1.s, p, k, P1)
                r3 == callReattach(w.s, p)
            IN /\ ~w.err /\ ~r3.err
               /\ r3.s.fields[meta.parent][meta.key] = before
               /\ r3.s.fields[N][k] = P1

\* ------------------------------------------------------------------ [reattach] after an overwrite
\* C22: when the entry K of the node of handle q holds the node O of handle
\* h, then after q.K = P1 the call h[reattach]() raises nothing and makes
\* that entry hold O again with the entries O had, and a later write
\* h.K2 = P2 is seen under that entry.
C22_ReattachAfterPrimitive ==
  \A q \in Proxies, h \in Proxies :
    \A K \in ShapeKeys(Cur, tobj[q]) :
      LET N == tobj[q]
          O == tobj[h]
          r1 == set(Cur, q, K, P1)
          r2 == callReattach(r1.s, h)
      IN (h # Root /\ O # N /\ kind[O] \in {"obj", "arr"} /\ fields[N][K] = O) =>
           /\ ~r1.err /\ r1.s.fields[N][K] = P1
           /\ ~r2.err /\ r2.ret = h
           /\ r2.s.fields[N][K] = O
           /\ r2.s.fields[O] = fields[O]
           /\ \A K2 \in ShapeKeys(Cur, O) :
                LET w == set(r2.s, h, K2, P2)
                IN ~w.err /\ w.s.fields[N][K] = O /\ w.s.fields[O][K2] = P2

C24_ResetLeavesInstalled ==
  \A p \in Proxies : (p # Root /\ metaMap[tobj[p]].parent # 0 /\ Slot(Cur, p) = tobj[p]) =>
    LET N == tobj[p]
        meta == metaMap[N]
        r == callReset(Cur, p)
        d == callDetach(Cur, p)
    IN /\ ~r.err /\ r.ret = p
       /\ OwnProps(r.s, N) = {} /\ r.s.len[N] = 0
       /\ r.s.fields[meta.parent] = fields[meta.parent]
       /\ ~d.err /\ d.s.fields[meta.parent][meta.key] = Absent
       /\ d.s.fields[N] = fields[N]

\* ------------------------------------------------------------------ [reset] on a function path
\* handle p is the one [returns] and [returnsSpy] return for a function path:
\* its recorded slot holds the function registered for its node
FunctionPath(s, p) ==
  LET N == s.tobj[p] IN
  /\ s.metaMap[N].parent # 0
  /\ IsFunctionS(s, Slot(s, p))
  /\ s.functionSet[N] = Slot(s, p)

\* C25: h[reset]() on the handle of a function path raises nothing, leaves
\* the function in its slot and makes a call of it return an object without
\* entries.
C25_ResetFunctionPath ==
  \A p \in Proxies : FunctionPath(Cur, p) =>
    LET f == Slot(Cur, p)
        r == callReset(Cur, p)
        v == CallResult(r.s, f)
    IN /\ ~r.err
       /\ Slot(r.s, p) = f
       /\ IsRef(v) /\ r.s.kind[v] = "obj" /\ r.s.fields[v] = NoFields

\* C25, amended: when the function of a function path returns the handle's
\* node, h[reset]() leaves the function in its slot and a call of it still
\* returns that node; when the node is a plain object the call of reset
\* raises nothing, returns h and the node has no entries left.
C25_ResetReturnedNode ==
  \A p \in Proxies :
    (FunctionPath(Cur, p) /\ CallResult(Cur, Slot(Cur, p)) = tobj[p]) =>
      LET N == tobj[p]
          f == Slot(Cur, p)
          r == callReset(Cur, p)
      IN /\ Slot(r.s, p) = f
         /\ CallResult(r.s, f) = N
         /\ kind[N] = "obj" => (~r.err /\ r.ret = p /\ r.s.fields[N] = NoFields)

\* h[reset]() has run on the handle of a function path under whose return
\* value a child had been made: the function is installed and returns the
\* node, now empty
C25_Witness ==
  /\ last.op = "reset" /\ ~last.err /\ tobj[last.h] # 0
  /\ FunctionPath(Cur, last.h)
  /\ CallResult(Cur, Slot(Cur, last.h)) = tobj[last.h]
  /\ fields[tobj[last.h]] = NoFields
  /\ \E c \in Nodes : metaMap[c].parent = tobj[last.h]

\* ------------------------------------------------------------------ [reset] on the root
\* C26: from any state mock[reset]() on the root handle raises nothing and
\* leaves the root object without entries, so no function installed before
\* is on it; navigating from the root handle afterwards makes a new empty
\* node under the root, a value written through the new handle lands under
\* it, and h[returns] = P1 or h[returnsSpy] = P1 on the new handle installs
\* a function at the path whose call returns P1.
C26_RootReset ==
  LET r == callReset(Cur, Root) IN
  /\ ~r.err /\ r.ret = Root
  /\ r.s.fields[Root] = NoFields
  /\ \A n \in Nodes : n # Root => r.s.fields[n] = fields[n]
  /\ \A k \in StrKeys :
       LET g == get(r.s, Root, k)
           h == g.ret
           w == set(g.s, h, k, P1)
           f1 == setReturns(g.s, h, P1)
           f2 == setReturnsSpy(g.s, h, P1)
       IN /\ ~g.err /\ h = NewS(Cur) /\ g.s.tobj[h] = h
          /\ g.s.fields[Root] = [NoFields EXCEPT ![k] = h]
          /\ g.s.fields[h] = NoFields
          /\ ~w.err /\ w.s.fields[Root][k] = h /\ w.s.fields[h][k] = P1
          /\ ~f1.err /\ f1.s.kind[f1.s.fields[Root][k]] = "fun"
          /\ CallResult(f1.s, f1.s.fields[Root][k]) = P1
          /\ ~f2.err /\ f2.s.kind[f2.s.fields[Root][k]] = "spy"
          /\ CallResult(f2.s, f2.s.fields[Root][k]) = P1

\* mock[reset]() has run on a root that held a function: the root is empty
\* and the function, still recorded for the root's slot, is gone from it
C26_Witness ==
  /\ last.op = "reset" /\ last.h = Root /\ ~last.err /\ last.ret = Root
  /\ fields[Root] = NoFields
  /\ \E f \in Nodes : IsFunctionS(Cur, f) /\ metaMap[f].parent = Root

\* ------------------------------------------------------------------ [detach] and [reattach] on a root
\* C27: on a handle whose node has no attachment record, the root handle
\* included, h[detach]() and h[reattach]() each raise and leave the heap,
\* every handle's node, proxyMap, metaMap and functionSet as they were.
C27_RootDetachReattach ==
  \A p \in Proxies : metaMap[tobj[p]].parent = 0 =>
    /\ callDetach(Cur, p).err /\ callDetach(Cur, p).s = Cur
    /\ callReattach(Cur, p).err /\ callReattach(Cur, p).s = Cur

\* mock[detach]() has raised on the root of a tree that is not empty
C27_Witness ==
  /\ last.op = "detach" /\ last.h = Root /\ last.err
  /\ metaMap[Root].parent = 0
  /\ \E k \in Keys : IsRef(fields[Root][k])

C29_FunctionAssignmentRejected ==
  \A p \in Proxies, k \in Keys, f \in Nodes :
    IsFunctionS(Cur, f) =>
      LET N == tobj[p]
          r == set(Cur, p, k, f)
      IN r.err /\ r.s.fields[N][k] = fields[N][k]

\* ------------------------------------------------------------------ all or nothing
\* an operation that raised left the heap, every handle's node, proxyMap,
\* metaMap and functionSet as they were
Atomic(r) == r.err => r.s = Cur

\* C30: from any state, every get, set, invocation and operator call on every
\* handle, with every key and value, either raises nothing or leaves the
\* whole state as it was before the call.
C30_AllOrNothing ==
  \A p \in Proxies :
    /\ \A k \in Keys : Atomic(get(Cur, p, k))
    /\ \A k \in Keys, v \in Prims \cup Templates : Atomic(set(Cur, p, k, v))
    /\ Atomic(apply(Cur, p))
    /\ Atomic(getReturns(Cur, p)) /\ Atomic(getReturnsSpy(Cur, p))
    /\ Atomic(getSpy(Cur, p)) /\ Atomic(getSpyMethod(Cur, p))
    /\ \A v \in Prims : Atomic(setReturns(Cur, p, v)) /\ Atomic(setReturnsSpy(Cur, p, v))
    /\ \A v \in Prims \cup Templates : Atomic(setSet(Cur, p, v))
    /\ Atomic(callReset(Cur, p))
    /\ Atomic(callDetach(Cur, p)) /\ Atomic(callReattach(Cur, p))

\* ------------------------------------------------------------------ a read that raises
\* C31: when the read of N[K] on the node N of handle h raises, the get h.K
\* raises nothing: it makes a new empty object, stores it at N[K], records
\* (N, K) as its attachment and returns a new handle bound to it; nothing
\* else of N changes.
C31_RaisingRead ==
  \A p \in Proxies, k \in Keys :
    ReadRaises(Cur, tobj[p], k) =>
      LET N == tobj[p]
          r == get(Cur, p, k)
          c == NewS(Cur)
      IN /\ ~r.err
         /\ r.s.kind[c] = "obj" /\ r.s.fields[c] = NoFields
         /\ r.s.fields[N] = [fields[N] EXCEPT ![k] = c]
         /\ r.s.metaMap[c] = [parent |-> N, key |-> k]
         /\ r.s.tobj[r.ret] = c /\ r.s.proxyMap[c] = r.ret
         /\ tobj[r.ret] = 0

\* lib.K was read on the module object while it did not define K: the get
\* returned a handle for a new object now stored there
C31_Witness ==
  /\ last.op = "get" /\ ~last.err /\ tobj[last.h] # 0
  /\ kind[tobj[last.h]] = "mod"
  /\ last.ret > last.pre
  /\ fields[tobj[last.h]][last.key] = tobj[last.ret]
  /\ metaMap[tobj[last.ret]] = [parent |-> tobj[last.h], key |-> last.key]

C33_AttachmentRecords ==
  \A n \in ReachFrom(Cur, {Root}) :
    (n # Root /\ kind[n] \in {"obj", "arr"}) =>
      /\ metaMap[n].parent # 0
      /\ fields[metaMap[n].parent][metaMap[n].key] = n
      /\ \A p \in Proxies : tobj[p] = n =>
           /\ ~callDetach(Cur, p).err /\ ~callReattach(Cur, p).err
           /\ ~setSet(Cur, p, P1).err /\ ~getReturns(Cur, p).err
           /\ ~set(Cur, p, "0", P1).err

\* ------------------------------------------------------------------ exclusive ownership
\* the slots (container, key) of state s that hold cell n
SlotsOf(s, n) == {sl \in Cells \X Keys : s.fields[sl[1]][sl[2]] = n}

\* the container of a slot that holds cell n, or 0
ParentOf(s, n) == IF SlotsOf(s, n) = {} THEN 0 ELSE (CHOOSE sl \in SlotsOf(s, n) : TRUE)[1]

\* climbing from cell c through at most d parents arrives at cell n
RECURSIVE Climbs(_, _, _, _)
Climbs(s, n, c, d) ==
  d > 0 /\ c # 0 /\ (c = n \/ Climbs(s, n, ParentOf(s, c), d - 1))

\* every cell is held by at most one slot, no slot holds the root and no cell
\* is its own ancestor
Owned(s) ==
  /\ \A n \in Cells : s.kind[n] # "free" => Cardinality(SlotsOf(s, n)) <= 1
  /\ SlotsOf(s, Root) = {}
  /\ \A n \in Cells : s.kind[n] # "free" => ~Climbs(s, n, ParentOf(s, n), MaxNodes + 2)

\* C34: in every state reached by navigation, assignment of primitives and
\* new composites, [returns], [detach] and [reattach], each node is held by
\* at most one parent slot, the root by none, and no node is its own
\* ancestor: the data under the root is a tree.
C34_ExclusiveOwnership == Owned(Cur)

\* after h[detach]() and an assignment at the same path, h[reattach]() has
\* put the node of h back: the slot holds it and it is held nowhere else
C34_Witness ==
  /\ last.op = "reattach" /\ ~last.err /\ tobj[last.h] # 0
  /\ SlotsOf(Cur, tobj[last.h]) = {<<metaMap[tobj[last.h]].parent, metaMap[tobj[last.h]].key>>}
  /\ \E c \in Nodes : /\ c # tobj[last.h] /\ kind[c] \in {"obj", "arr"}
                      /\ metaMap[c] = metaMap[tobj[last.h]]
                      /\ SlotsOf(Cur, c) = {}

\* ------------------------------------------------------------------ upgrade to a spy
\* C35: at a function path whose function is a plain one (made by
\* [returns]), h[returnsSpy] = P2 raises nothing; afterwards the slot holds
\* a spy whose call returns P2, and h[spy] and h[returnsSpy][spy] return
\* that spy and install nothing more.
C35_UpgradeToSpy ==
  \A p \in Proxies :
    (FunctionPath(Cur, p) /\ kind[Slot(Cur, p)] = "fun") =>
      LET r == setReturnsSpy(Cur, p, P2)
          g == Slot(r.s, p)
          s1 == getSpy(r.s, p)
          h2 == getReturnsSpy(r.s, p)
          s2 == getSpy(h2.s, h2.ret)
      IN /\ ~r.err
         /\ IsRef(g) /\ r.s.kind[g] = "spy" /\ CallResult(r.s, g) = P2
         /\ ~s1.err /\ s1.ret = g /\ s1.s = r.s
         /\ ~h2.err /\ ~s2.err /\ s2.ret = g /\ s2.s = r.s

\* ------------------------------------------------------------------ get of an existing child
\* the objects, arrays and functions of state s with their entries
Heap(s) == [kind |-> s.kind, fields |-> s.fields, len |-> s.len]

\* C36: a get h.K where N[K] holds a truthy value (an object, an array, a
\* function or a truthy primitive) raises nothing and changes no object of
\* the heap.
C36_GetLeavesTree ==
  \A p \in Proxies, k \in Keys :
    Truthy(ReadProp(Cur, tobj[p], k)) =>
      LET r == get(Cur, p, k) IN ~r.err /\ Heap(r.s) = Heap(Cur)

\* C36, amended: a get h.K where N[K] holds an object, an array or a
\* function raises nothing, changes no object of the heap and no attachment
\* record, and returns a handle registered for that child (the registered
\* one if there is one); where N[K] of a plain object N holds a primitive,
\* truthy or not, the get stores a new empty object at N[K] in its place
\* and returns a handle bound to it.
C36_GetExistingChild ==
  \A p \in Proxies, k \in Keys :
    LET N == tobj[p]
        c == ReadProp(Cur, N, k)
        r == get(Cur, p, k)
    IN /\ IsRef(c) =>
            /\ ~r.err /\ Heap(r.s) = Heap(Cur) /\ r.s.metaMap = metaMap
            /\ r.s.proxyMap[c] = r.ret
            /\ proxyMap[c] # 0 => r.s = Cur
       /\ (c \in Prims /\ kind[N] = "obj") =>
            /\ ~r.err /\ r.ret = NewS(Cur)
            /\ r.s.fields[N] = [fields[N] EXCEPT ![k] = NewS(Cur)]
            /\ r.s.kind[NewS(Cur)] = "obj" /\ r.s.fields[NewS(Cur)] = NoFields
            /\ r.s.tobj[r.ret] = NewS(Cur)

\* a get has returned a new handle for a child that was there without one
\* (it was stored by an assignment): nothing was allocated
C36_Witness ==
  /\ last.op = "get" /\ ~last.err /\ tobj[last.h] # 0 /\ tobj[last.ret] # 0
  /\ AllocS(Cur) = last.pre
  /\ fields[tobj[last.h]][last.key] = tobj[last.ret]
  /\ metaMap[tobj[last.ret]].parent = 0

\* ------------------------------------------------------------------ frame of an assignment
\* C37: h.K = V with K a property name and N an object changes only N[K],
\* or only the entries of the container at N[K] when V is merged into
\* it: every other key of N and every other node keeps its entries, and
\* N[K] is present afterwards.
C37_AssignmentFrame ==
  \A p \in Proxies, k \in StrKeys, v \in {P1, TObj0, TObjA, TArr0, TArr1} :
    (tobj[p] # 0 /\ kind[tobj[p]] = "obj") =>
      LET N == tobj[p]
          old == fields[N][k]
          r == set(Cur, p, k, v)
      IN /\ \A j \in Keys \ {k} : r.s.fields[N][j] = fields[N][j]
         /\ \A n \in Cells \ {N, old} :
              kind[n] # "free" => r.s.fields[n] = fields[n] /\ r.s.kind[n] = kind[n]
         /\ ~r.err => r.s.fields[N][k] # Absent

Stale(s, p) ==
  LET N == s.tobj[p]
      c == Slot(s, p)
  IN /\ N # 0 /\ s.metaMap[N].parent # 0
     /\ c # N
     /\ ~(IsRef(c) /\ IsFunctionS(s, c) /\ s.functionSet[N] = c)

C40_SpyStable ==
  \A p \in Proxies :
    (tobj[p] # 0 /\ metaMap[tobj[p]].parent # 0) =>
      LET r1 == getSpy(Cur, p)
          r2 == getSpy(r1.s, p)
      IN ~r1.err => ~r2.err /\ r2.ret = r1.ret /\ r2.s = r1.s

====
